---- MODULE Spec2Model ----
(***************************************************************************)
(* Model of cyberwave_edge/service.py: the EdgeService command-driven      *)
(* video stream lifecycle.  One asyncio event loop runs the main task      *)
(* (EdgeService.run / shutdown) and one task per accepted command          *)
(* (_handle_start_video_command / _handle_stop_video_command).  Every      *)
(* action is one atomic block of a coroutine: the code between two         *)
(* suspension points (await of the lock, of the stream handle's start(),   *)
(* stop(), pc.close(), or of asyncio.sleep).  Calls into the SDK (stream   *)
(* handle, MQTT client) either return or raise; the choice is made by \E.  *)
(*                                                                         *)
(* Spec is the service from the moment it is constructed.  The other       *)
(* specifications are the same service with one more part followed: the    *)
(* start of the process from any environment (SpecConfig, config.py), the  *)
(* frame-count tasks (SpecMonitor), a history of refused payloads          *)
(* (SpecLogged), of signals under the loop's scheduling (SpecFair), of     *)
(* failed disconnects (SpecShutdown) or failed teardown calls              *)
(* (SpecTeardown).  The variable observed, fixed by Init, says which       *)
(* history a run keeps.                                                    *)
(***************************************************************************)
EXTENDS Integers, Sequences, FiniteSets, TLC

\* Bound on the number of commands the callback accepts in one run.
MaxCmds == 3

VARIABLES
    running,        \* EdgeService.running
    client,         \* EdgeService.client is not None
    event_loop,     \* EdgeService.event_loop is not None
    video_stream,   \* EdgeService.video_stream: 0 is None, h > 0 is handle h
    locked,         \* _video_operation_lock._locked
    waiters,        \* _video_operation_lock._waiters, FIFO, task ids
    subscribed,     \* on_command_message is registered with the MQTT client
    has_pc,         \* the SDK's stream handles have a truthy attribute pc
    has_streamer,   \* the SDK's stream handles have a truthy attribute streamer
    readyQ,         \* tasks scheduled on the loop, not yet started: c for
                    \* the handler of command c, -m for frame-count task m
    tasks,          \* one record per accepted command, in acceptance order
    streams,        \* one record per constructed stream handle
    published,      \* acknowledgments published on the command channel
    dropped,        \* history: the payload the callback last refused
    mainPc,         \* position of the main task (run / shutdown)
    stream_to_stop, \* shutdown's local stream_to_stop (0 when unset)
    exc,            \* run() has an exception to re-raise after shutdown
    disc,           \* disconnect calls attempted by shutdown
    signalled,      \* history: a signal was delivered to the process
    observed,       \* the histories this run keeps (fixed by Init)
    environ,        \* os.environ: CYBERWAVE_TOKEN, _TWIN_UUID, _MQTT_PORT
    dotenv,         \* the assignments of the .env file
    config,         \* the EdgeConfig load_config returned (NoConfig before)
    exit_code,      \* the exit status of the process (NotExited before)
    monitors        \* the _log_frame_count_periodically tasks created

vars == <<running, client, event_loop, video_stream, locked, waiters,
          subscribed, has_pc, has_streamer, readyQ, tasks, streams,
          published, dropped, mainPc, stream_to_stop, exc, disc,
          signalled, observed, environ, dotenv, config, exit_code,
          monitors>>

mainVars == <<running, client, event_loop, subscribed, mainPc,
              stream_to_stop, exc, disc, signalled, observed,
              environ, dotenv, config, exit_code>>

configVars == <<environ, dotenv, config>>

\* The history variables of the main task.
mainHistory == <<signalled, observed>>

None == 0

(***************************************************************************)
(* Payloads delivered to on_command_message.  A payload is either not a    *)
(* mapping, or a mapping with some of the keys "status" and "command";     *)
(* the value under "command" is a known command, an unknown one, or a      *)
(* falsy value ("").                                                       *)
(***************************************************************************)
CommandValues == {"start_video", "stop_video", "reboot", ""}

\* The value of dropped while no payload has been refused.
NoPayload == [isdict |-> FALSE, keys |-> {}, command |-> "-"]

NonDict == [isdict |-> FALSE, keys |-> {}, command |-> "None"]

Payloads ==
    {NonDict} \cup
    {[isdict |-> TRUE, keys |-> K,
      command |-> IF "command" \in K THEN v ELSE "None"] :
        K \in SUBSET {"status", "command"}, v \in CommandValues}

\* payload.get("command"): the value, or None when the key is absent
Get(payload_keys, data) ==
    IF "command" \in payload_keys THEN data.command ELSE "None"

\* not command_type: None and the empty string are falsy
Falsy(v) == v \in {"None", ""}

\* on_command_message without the test for "status" at 98-99.
DispatchNoStatusTest(data, loop) ==
    LET payload_keys == IF data.isdict THEN data.keys ELSE {}
        command_type == Get(payload_keys, data)
    IN  IF Falsy(command_type) THEN "missing_command"
        ELSE IF ~loop THEN "no_event_loop"
        ELSE IF command_type = "start_video" THEN "start_video"
        ELSE IF command_type = "stop_video" THEN "stop_video"
        ELSE "unknown_command"

\* What on_command_message does with a payload: the name of the handler it
\* schedules, or the reason it returns without scheduling one.
Dispatch(data, loop) ==
    LET payload_keys == IF data.isdict THEN data.keys ELSE {}
        command_type == Get(payload_keys, data)
    IN  IF "status" \in payload_keys THEN "ignored_status"
        ELSE IF Falsy(command_type) THEN "missing_command"
        ELSE IF ~loop THEN "no_event_loop"
        ELSE IF command_type = "start_video" THEN "start_video"
        ELSE IF command_type = "stop_video" THEN "stop_video"
        ELSE "unknown_command"

Scheduled(d) == d \in {"start_video", "stop_video"}

NewTask(data, kind) ==
    [data |-> data, kind |-> kind, pc |-> "ready", h |-> None,
     seen |-> -1, after |-> -1, raised |-> {}]

TaskIds == 1..Len(tasks)

(***************************************************************************)
(* cyberwave_edge/config.py.  The environment maps each of the three       *)
(* names to the string it is set to, or to Unset; the .env file assigns    *)
(* the token and the twin identifier, or leaves them out.                  *)
(***************************************************************************)
Unset == "unset"

EnvValues == {Unset, "", "x"}

PortValues == {Unset, "8883", "abc"}

Environs == [token : EnvValues, twin : EnvValues, port : PortValues]

Dotenvs == [token : EnvValues, twin : EnvValues]

ValidEnviron == [token |-> "x", twin |-> "x", port |-> Unset]

NoFile == [token |-> Unset, twin |-> Unset]

NoConfig == [cyberwave_token |-> "-", twin_uuid |-> "-", mqtt_port |-> 0]

\* load_dotenv(dotenv_path=env_file, override=False) (97): a name the file
\* assigns is set in the environment unless the environment has it.
LoadDotenv(env, file) ==
    [n \in DOMAIN env |->
        IF env[n] = Unset /\ n \in DOMAIN file THEN file[n] ELSE env[n]]

\* os.getenv(name, default)
Getenv(env, n, default) == IF env[n] = Unset THEN default ELSE env[n]

\* int() of a string that is no numeral raises ValueError.
BadInt == -1

DefaultPort == 1883

\* int(os.getenv("CYBERWAVE_MQTT_PORT", self.mqtt_port)) (54)
PortOf(env) ==
    IF env.port = Unset THEN DefaultPort
    ELSE IF env.port = "8883" THEN 8883
    ELSE BadInt

\* EdgeConfig() with __post_init__ (48-66): the fields the service needs.
EdgeConfig(env) ==
    [cyberwave_token |-> Getenv(env, "token", "None"),
     twin_uuid |-> Getenv(env, "twin", "None"),
     mqtt_port |-> PortOf(env)]

\* validate that tests the token only.
validate_token_only(cfg) == ~Falsy(cfg.cyberwave_token)

\* EdgeConfig.validate (68-78)
validate(cfg) ==
    IF Falsy(cfg.cyberwave_token) THEN FALSE
    ELSE IF Falsy(cfg.twin_uuid) THEN FALSE
    ELSE TRUE

\* load_config (81-112): the environment it leaves, and the configuration
\* it returns or the ValueError it raises.
load_config(env, file) ==
    LET e == LoadDotenv(env, file)
        cfg == EdgeConfig(e)
    IN  IF cfg.mqtt_port = BadInt
        THEN [environ |-> e, config |-> NoConfig, error |-> "invalid literal"]
        ELSE IF ~validate(cfg)
        THEN [environ |-> e, config |-> NoConfig,
              error |-> "Invalid configuration"]
        ELSE [environ |-> e, config |-> cfg, error |-> "none"]

\* The exit status of a process that has not exited.
NotExited == -1

\* The service's fields as EdgeService.__init__ sets them (26-33), and a
\* loop on which nothing has run.
Fresh ==
    /\ running = FALSE
    /\ client = FALSE
    /\ event_loop = FALSE
    /\ video_stream = None
    /\ locked = FALSE
    /\ waiters = <<>>
    /\ subscribed = FALSE
    /\ has_pc \in BOOLEAN
    /\ has_streamer \in BOOLEAN
    /\ readyQ = <<>>
    /\ tasks = <<>>
    /\ streams = <<>>
    /\ published = <<>>
    /\ dropped = NoPayload
    /\ stream_to_stop = None
    /\ exc = FALSE
    /\ disc = {}
    /\ signalled = FALSE
    /\ exit_code = NotExited
    /\ monitors = <<>>

\* async_main 328-340 is over: load_config returned a valid configuration,
\* the service is constructed and the signal handlers are installed.
Constructed ==
    /\ Fresh
    /\ mainPc = "init"
    /\ environ = ValidEnviron
    /\ dotenv = NoFile
    /\ config = EdgeConfig(environ)

Init == Constructed /\ observed = {}

(***************************************************************************)
(* on_command_message (service.py 93-123), run by the MQTT client's        *)
(* thread.  run_coroutine_threadsafe appends the handler to the loop's     *)
(* FIFO of ready callbacks; once the loop is closed it raises and the      *)
(* callback's except clause swallows that, so nothing is scheduled.        *)
(* A payload that schedules nothing changes no field of the service; with  *)
(* log set, the payload is kept in the history variable dropped.  limit    *)
(* bounds the number of commands accepted in one run.                      *)
(***************************************************************************)
Deliver(data, log, limit) ==
    /\ subscribed
    /\ mainPc # "exited"
    /\ LET d == Dispatch(data, event_loop) IN
       IF Scheduled(d)
       THEN /\ Len(tasks) < limit
            /\ tasks' = Append(tasks, NewTask(data, d))
            /\ readyQ' = Append(readyQ, Len(tasks) + 1)
            /\ UNCHANGED dropped
       ELSE /\ dropped' = IF log THEN data ELSE dropped
            /\ UNCHANGED <<tasks, readyQ>>
    /\ UNCHANGED <<video_stream, locked, waiters, has_pc, has_streamer,
                   streams, published>>
    /\ UNCHANGED mainVars
    /\ UNCHANGED monitors

on_command_message(data) == Deliver(data, FALSE, MaxCmds)

(***************************************************************************)
(* publish_command_message(twin_uuid, status) is a call into the MQTT      *)
(* client and may raise.  In both handlers the publish of "ok" is inside   *)
(* the try block, so when it raises the except clause publishes "error";   *)
(* when the publish inside the except clause raises, the exception leaves  *)
(* the handler.  An outcome is the acknowledgments that reached the        *)
(* channel and whether a publish raised.                                   *)
(***************************************************************************)
PublishOutcomes(first) ==
    IF first = "ok"
    THEN {[pub |-> <<"ok">>, raised |-> {}],
          [pub |-> <<"error">>, raised |-> {"publish"}],
          [pub |-> <<>>, raised |-> {"publish"}]}
    ELSE {[pub |-> <<"error">>, raised |-> {}],
          [pub |-> <<>>, raised |-> {"publish"}]}

Acks(c, pub) == [i \in 1..Len(pub) |-> [cmd |-> c, result |-> pub[i]]]

\* The end of a handler that takes and releases the lock by hand, with no
\* release on the path of an exception that leaves the handler.
FinishLockLeft(c, first, t, vs) ==
    \E o \in PublishOutcomes(first) :
        /\ tasks' = [tasks EXCEPT ![c] =
                        [t EXCEPT !.pc = "done", !.after = vs,
                                  !.raised = @ \cup o.raised]]
        /\ published' = published \o Acks(c, o.pub)
        /\ locked' = (o.pub = <<>>)

\* The end of a handler: publish, leave "async with" (Lock.release), return.
\* t is the task's record as the handler leaves it, vs the value of
\* self.video_stream at that point.
Finish(c, first, t, vs) ==
    \E o \in PublishOutcomes(first) :
        /\ tasks' = [tasks EXCEPT ![c] =
                        [t EXCEPT !.pc = "done", !.after = vs,
                                  !.raised = @ \cup o.raised]]
        /\ published' = published \o Acks(c, o.pub)
        /\ locked' = FALSE

(***************************************************************************)
(* Stream handles.  st: "starting" while start() is awaited, "started"     *)
(* once it returned, "failed" once it raised.  td: "none" before any       *)
(* teardown call, "in" from the first teardown call, "done" once the last  *)
(* teardown call of the sequence returned or raised.  calls: the calls     *)
(* made on the handle.  raised: history, the teardown calls that raised,   *)
(* kept by the runs that observe "teardown".                               *)
(***************************************************************************)
NewStream ==
    [st |-> "starting", td |-> "none", calls |-> {"start"}, raised |-> {}]

Called(ss, h, call) ==
    [ss EXCEPT ![h].calls = @ \cup {call}, ![h].td = "in"]

\* A start failure that leaves the partial handle without calling stop().
StartFailedNoStop(ss, h) == [ss EXCEPT ![h].st = "failed"]

\* start_video_stream 198-202: start() raised; stop() is called on the
\* handle that was constructed.
StartFailed(ss, h) == Called([ss EXCEPT ![h].st = "failed"], h, "stop")

\* A teardown call on handle h raised; its except clause logs.
Note(ss, h, call) ==
    IF "teardown" \in observed
    THEN [ss EXCEPT ![h].raised = @ \cup {call}]
    ELSE ss

\* stop_video_stream 273-280: streamer.close() when the handle has a
\* streamer (an exception is logged), then "await stream_to_stop.stop()".
TdSink(ss, h) ==
    LET s1 == IF has_streamer THEN Called(ss, h, "streamer.close") ELSE ss
    IN  [ss |-> Called(s1, h, "stop"), at |-> "stop"]

\* stop_video_stream 273-280 with streamer.close() and stop() in one try
\* block: an exception of streamer.close() skips stop().
TdSinksInOneTry(ss, h) ==
    LET td == TdSink(ss, h) IN
    {td} \cup
    IF has_streamer /\ "teardown" \in observed
    THEN {[ss |-> Note(Called(ss, h, "streamer.close"), h, "streamer.close"),
           at |-> "stop"]}
    ELSE {}

\* stop_video_stream 273-280 with the outcomes of streamer.close(): it
\* returns, or it raises, which the except clause at 276 logs.
TdSinks(ss, h) ==
    LET td == TdSink(ss, h) IN
    {td} \cup
    IF has_streamer /\ "teardown" \in observed
    THEN {[td EXCEPT !.ss = Note(td.ss, h, "streamer.close")]}
    ELSE {}

\* stop_video_stream 265-268: "await stream_to_stop.pc.close()" when the
\* handle has a pc, else straight on to the streamer.
TdBegin(ss, h) ==
    IF has_pc THEN [ss |-> Called(ss, h, "pc.close"), at |-> "pc_close"]
    ELSE TdSink(ss, h)

\* stop_video_stream 265-280 up to the first suspension point, with the
\* outcomes of streamer.close().
TdBegins(ss, h) ==
    IF has_pc THEN {TdBegin(ss, h)} ELSE TdSinks(ss, h)

\* stop_video_stream 279-282 and start_video_stream 200-203: the awaited
\* stop() returned or raised.  Its exception is caught by the except clause
\* next to it (281, 202), so in stop_video_stream the outer clause 284-291,
\* which would call streamer.release(), is not entered.
StopReturned(ss, h, raises) ==
    LET s1 == [ss EXCEPT ![h].td = "done"]
    IN  IF raises THEN Note(s1, h, "stop") ELSE s1

(***************************************************************************)
(* The frame-count tasks.  _setup_frame_monitoring (208-237) creates one   *)
(* for a handle that has a pc and a streamer (the SDK's streamer has       *)
(* frame_count).  The tasks write no field of the service, and only the    *)
(* runs that observe "monitor" follow them.  pc: "new" until the task      *)
(* first runs, "sleeping" in asyncio.sleep(5), "ended" once it returned.   *)
(* seen: history, the value of video_stream when the task first ran (-1    *)
(* before).  stale: history, the task sampled frame_count while its stream *)
(* was no longer the retained one.                                         *)
(***************************************************************************)
NewMonitor(h) == [h |-> h, pc |-> "new", seen |-> -1, stale |-> FALSE]

Monitored(ms, h) ==
    IF "monitor" \in observed /\ has_pc /\ has_streamer
    THEN Append(ms, NewMonitor(h))
    ELSE ms

\* 243: while self.running and self.video_stream is not None
KeepsSampling(r, vs) == r /\ vs # None

MonitorIds == 1..Len(monitors)

\* 235: asyncio.create_task puts the new task at the end of the loop's FIFO
\* of ready callbacks.
Created(q, ms, ms2) == IF Len(ms2) > Len(ms) THEN Append(q, -Len(ms2)) ELSE q

\* A start handler that starts a stream whatever it finds retained.
video_already_running_never(vs) == FALSE

\* 135-137: hasattr(self, "video_stream") and self.video_stream is not None
video_already_running(vs) == vs # None

\* A stop handler that never finds a stream to stop.
video_was_running_never(vs) == FALSE

\* A stop handler that runs the stop sequence whatever it finds retained.
video_was_running_always(vs) == TRUE

\* 157-159: hasattr(self, "video_stream") and self.video_stream is not None
video_was_running(vs) == vs # None

\* A lock that is handed out whenever nobody waits, held or not.
LockFreeIgnoringHolder(l, w) == w = <<>>

\* asyncio.Lock.acquire takes the lock at once only when it is unlocked and
\* nobody waits for it.
LockFree(l, w) == ~l /\ w = <<>>

\* A lock whose release wakes the waiter that came last.
LastWaiter(w) == w[Len(w)]

\* asyncio.Lock.release wakes the first waiter.
NextWaiter(w) == Head(w)

\* The loop runs ready callbacks first in, first out.
NextReady(q) == Head(q)

(***************************************************************************)
(* _handle_start_video_command 133-147 from the acquisition of the lock    *)
(* to the first suspension point.  start_video_stream is entered with      *)
(* video_stream None (the test at 135-139 and the call at 140 are one      *)
(* atomic block), so its branch 177-181 is never taken from here.          *)
(***************************************************************************)
StartBody(c) ==
    LET t == [tasks[c] EXCEPT !.seen = video_stream] IN
    IF video_already_running(video_stream)
    THEN /\ Finish(c, "ok", t, video_stream)
         /\ UNCHANGED <<video_stream, streams>>
    ELSE \E ctor_raises \in BOOLEAN :
            IF ctor_raises
            THEN \* 186-193 raised: 198-206, local video_stream is None
                 /\ video_stream' = None
                 /\ Finish(c, "error", [t EXCEPT !.raised = @ \cup {"ctor"}], None)
                 /\ UNCHANGED streams
            ELSE \* 188-195: construct, then await video_stream.start()
                 /\ streams' = Append(streams, NewStream)
                 /\ tasks' = [tasks EXCEPT ![c] =
                                [t EXCEPT !.pc = "start", !.h = Len(streams) + 1]]
                 /\ locked' = TRUE
                 /\ UNCHANGED <<video_stream, published>>

(***************************************************************************)
(* _handle_stop_video_command 155-169 from the acquisition of the lock to  *)
(* the first suspension point, stop_video_stream 259-268 included.         *)
(***************************************************************************)
StopBody(c) ==
    LET t == [tasks[c] EXCEPT !.seen = video_stream] IN
    IF video_was_running(video_stream)
    THEN /\ \E td \in TdBegins(streams, video_stream) :
               /\ streams' = td.ss
               /\ tasks' = [tasks EXCEPT ![c] =
                              [t EXCEPT !.pc = td.at, !.h = video_stream]]
         /\ video_stream' = None
         /\ locked' = TRUE
         /\ UNCHANGED published
    ELSE /\ Finish(c, "ok", t, video_stream)
         /\ UNCHANGED <<video_stream, streams>>

Body(c) ==
    IF tasks[c].kind = "start_video" THEN StartBody(c) ELSE StopBody(c)

\* The first step of a handler task: "async with self._video_operation_lock".
\* A handler is scheduled only by the callback, which is registered once
\* client is set, so the tests at 129 and 151 never return here.
handle_command(c) ==
    /\ readyQ # <<>>
    /\ c = NextReady(readyQ)
    /\ readyQ' = SelectSeq(readyQ, LAMBDA x : x # c)
    /\ IF LockFree(locked, waiters)
       THEN /\ Body(c)
            /\ UNCHANGED waiters
       ELSE /\ waiters' = Append(waiters, c)
            /\ tasks' = [tasks EXCEPT ![c].pc = "waiting"]
            /\ UNCHANGED <<video_stream, locked, streams, published>>
    /\ UNCHANGED <<has_pc, has_streamer, dropped>>
    /\ UNCHANGED mainVars
    /\ UNCHANGED monitors

\* A waiter woken by Lock.release resumes, takes the lock and runs the body.
lock_acquired(c) ==
    /\ waiters # <<>>
    /\ ~locked
    /\ c = NextWaiter(waiters)
    /\ waiters' = SelectSeq(waiters, LAMBDA x : x # c)
    /\ Body(c)
    /\ UNCHANGED <<has_pc, has_streamer, dropped, readyQ>>
    /\ UNCHANGED mainVars
    /\ UNCHANGED monitors

handlerFrame == <<has_pc, has_streamer, dropped, readyQ, waiters>>

\* start_video_stream 195-206: "await video_stream.start()" returns or raises.
start_returns(c) ==
    /\ c \in TaskIds
    /\ tasks[c].pc = "start"
    /\ LET h == tasks[c].h IN
       \E raises \in BOOLEAN :
          IF raises
          THEN \* 198-202: "await video_stream.stop()" on the partial handle
               /\ streams' = StartFailed(streams, h)
               /\ tasks' = [tasks EXCEPT ![c].pc = "cleanup",
                                         ![c].raised = @ \cup {"start"}]
               /\ UNCHANGED <<video_stream, locked, published, monitors,
                              readyQ>>
          ELSE \* 196-197 with _setup_frame_monitoring, then 142: publish "ok"
               /\ streams' = [streams EXCEPT ![h].st = "started"]
               /\ video_stream' = h
               /\ monitors' = Monitored(monitors, h)
               /\ readyQ' = Created(readyQ, monitors, monitors')
               /\ Finish(c, "ok", tasks[c], h)
    /\ UNCHANGED <<has_pc, has_streamer, dropped, waiters>>
    /\ UNCHANGED mainVars

\* start_video_stream 202-206: the cleanup stop() returns or raises (the
\* exception is logged); video_stream is cleared and the start error
\* re-raised to the handler, which publishes "error" (144-147).
cleanup_returns(c) ==
    /\ c \in TaskIds
    /\ tasks[c].pc = "cleanup"
    /\ \E raises \in BOOLEAN :
          /\ streams' = StopReturned(streams, tasks[c].h, raises)
          /\ video_stream' = None
          /\ Finish(c, "error", tasks[c], None)
    /\ UNCHANGED handlerFrame
    /\ UNCHANGED mainVars
    /\ UNCHANGED monitors

\* stop_video_stream 268-271 in a handler: "await pc.close()" returns (then
\* "await asyncio.sleep(0.2)") or raises (logged, on to the streamer).
pc_close_returns(c) ==
    /\ c \in TaskIds
    /\ tasks[c].pc = "pc_close"
    /\ \E raises \in BOOLEAN :
          IF raises
          THEN \E td \in TdSinks(Note(streams, tasks[c].h, "pc.close"),
                                  tasks[c].h) :
               /\ streams' = td.ss
               /\ tasks' = [tasks EXCEPT ![c].pc = td.at]
          ELSE /\ tasks' = [tasks EXCEPT ![c].pc = "sleep"]
               /\ UNCHANGED streams
    /\ UNCHANGED <<video_stream, locked, published>>
    /\ UNCHANGED handlerFrame
    /\ UNCHANGED mainVars
    /\ UNCHANGED monitors

\* stop_video_stream 269-280 in a handler: the sleep is over.
sleep_returns(c) ==
    /\ c \in TaskIds
    /\ tasks[c].pc = "sleep"
    /\ \E td \in TdSinks(streams, tasks[c].h) :
       /\ streams' = td.ss
       /\ tasks' = [tasks EXCEPT ![c].pc = td.at]
    /\ UNCHANGED <<video_stream, locked, published>>
    /\ UNCHANGED handlerFrame
    /\ UNCHANGED mainVars
    /\ UNCHANGED monitors

\* stop_video_stream 280-282 in a handler: "await stream_to_stop.stop()"
\* returns or raises (logged); back in the handler, 164: publish "ok".
stop_returns(c) ==
    /\ c \in TaskIds
    /\ tasks[c].pc = "stop"
    /\ \E raises \in BOOLEAN :
          /\ streams' = StopReturned(streams, tasks[c].h, raises)
          /\ Finish(c, "ok", tasks[c], video_stream)
    /\ UNCHANGED video_stream
    /\ UNCHANGED handlerFrame
    /\ UNCHANGED mainVars
    /\ UNCHANGED monitors

handlerVars == <<video_stream, locked, waiters, has_pc, has_streamer, readyQ,
                 tasks, streams, published, dropped>>

(***************************************************************************)
(* The main task.  run 53-57 with connect 37-49 is one atomic block (no    *)
(* await in it suspends): it ends in the sleeps of 58-62 ("loop"), or     *)
(* with an exception of the Cyberwave constructor (client stays None) or   *)
(* of mqtt.connect / subscribe_command_message (client is set).            *)
(* load_config has validated the configuration, so twin_uuid is set at     *)
(* line 89.                                                                *)
(***************************************************************************)
run(outcome) ==
    /\ mainPc = "init"
    /\ running' = TRUE
    /\ event_loop' = TRUE
    /\ client' = (outcome # "client_raises")
    /\ subscribed' = (outcome = "connected")
    /\ exc' = (outcome # "connected")
    /\ mainPc' = IF outcome = "connected" THEN "loop" ELSE "failed"
    /\ UNCHANGED <<stream_to_stop, disc>>
    /\ UNCHANGED mainHistory
    /\ UNCHANGED <<configVars, exit_code, monitors>>
    /\ UNCHANGED handlerVars

ConnectOutcomes == {"connected", "client_raises", "mqtt_raises"}

\* async_main 335-337: SIGINT or SIGTERM is delivered to the process,
\* whose handlers are installed since Init.  The handler runs between two
\* bytecodes of the main thread: before run() has set running (53) as well
\* as after.
signal_handler ==
    /\ mainPc \notin {"boot", "exited"}
    /\ running' = FALSE
    /\ signalled' = IF "signal" \in observed THEN TRUE ELSE signalled
    /\ UNCHANGED <<client, event_loop, subscribed, mainPc, stream_to_stop,
                   exc, disc, observed, configVars, exit_code, monitors>>
    /\ UNCHANGED handlerVars

\* shutdown 300-310: both disconnects are attempted when there is a client;
\* an exception of either is logged.
Disconnects(cl) == IF cl THEN {"mqtt", "client"} ELSE {}

\* The disconnect calls that may raise; a run that does not keep the history
\* of shutdown's disconnects records none.
DisconnectRaises(cl) ==
    IF cl /\ "disconnect" \in observed
    THEN SUBSET {"mqtt_raised", "client_raised"}
    ELSE {{}}

\* shutdown 300-310 with both calls in one try block: an exception of
\* mqtt.disconnect skips the client's disconnect.
DisconnectedInOneTry(cl, r) ==
    IF "mqtt_raised" \in r THEN {"mqtt", "mqtt_raised"}
    ELSE Disconnects(cl) \cup r

\* shutdown 300-310: the calls attempted and those that raised, r.  Each call
\* has its own try block whose except clause logs, so the outcome never
\* holds "propagated" (an exception left shutdown).  The SDK's client has
\* the attribute mqtt and the method disconnect (300, 306).
Disconnected(cl, r) == Disconnects(cl) \cup r

\* run 63-68: the exception run() ends with is the one of connect, or one
\* that left shutdown in the finally clause.
Raises(e, d) == e \/ "propagated" \in d

SdPc(at) == IF at = "pc_close" THEN "sd_pc_close" ELSE "sd_stop"

\* A shutdown that takes the video operation lock before it stops the stream.
shutdown_waits_for_lock(l) == l

\* shutdown 293-298 calls stop_video_stream with no
\* "async with self._video_operation_lock": it waits for no handler.
shutdown_waits(l) == FALSE

\* run 61-68 and shutdown 293-298: the wait loop sees running false, or
\* connect raised; shutdown runs up to its first suspension point.
shutdown ==
    /\ \/ mainPc = "loop" /\ ~running
       \/ mainPc = "failed"
    /\ ~shutdown_waits(locked)
    /\ running' = FALSE
    /\ IF video_stream # None
       THEN /\ \E td \in TdBegins(streams, video_stream) :
                  /\ streams' = td.ss
                  /\ mainPc' = SdPc(td.at)
            /\ stream_to_stop' = video_stream
            /\ video_stream' = None
            /\ UNCHANGED disc
            /\ UNCHANGED exc
       ELSE /\ \E r \in DisconnectRaises(client) :
                  disc' = Disconnected(client, r)
            /\ exc' = Raises(exc, disc')
            /\ mainPc' = "returned"
            /\ UNCHANGED <<stream_to_stop, video_stream, streams>>
    /\ UNCHANGED <<client, event_loop, subscribed>>
    /\ UNCHANGED mainHistory
    /\ UNCHANGED <<configVars, exit_code, monitors>>
    /\ UNCHANGED <<locked, waiters, has_pc, has_streamer, readyQ, tasks,
                   published, dropped>>

\* stop_video_stream 268-271 called by shutdown.
sd_pc_close_returns ==
    /\ mainPc = "sd_pc_close"
    /\ \E raises \in BOOLEAN :
          IF raises
          THEN \E td \in TdSinks(Note(streams, stream_to_stop, "pc.close"),
                                  stream_to_stop) :
               /\ streams' = td.ss
               /\ mainPc' = SdPc(td.at)
          ELSE /\ mainPc' = "sd_sleep"
               /\ UNCHANGED streams
    /\ UNCHANGED <<running, client, event_loop, subscribed, stream_to_stop,
                   exc, disc>>
    /\ UNCHANGED mainHistory
    /\ UNCHANGED <<configVars, exit_code, monitors>>
    /\ UNCHANGED <<video_stream, locked, waiters, has_pc, has_streamer,
                   readyQ, tasks, published, dropped>>

\* stop_video_stream 269-280 called by shutdown.
sd_sleep_returns ==
    /\ mainPc = "sd_sleep"
    /\ \E td \in TdSinks(streams, stream_to_stop) :
       /\ streams' = td.ss
       /\ mainPc' = SdPc(td.at)
    /\ UNCHANGED <<running, client, event_loop, subscribed, stream_to_stop,
                   exc, disc>>
    /\ UNCHANGED mainHistory
    /\ UNCHANGED <<configVars, exit_code, monitors>>
    /\ UNCHANGED <<video_stream, locked, waiters, has_pc, has_streamer,
                   readyQ, tasks, published, dropped>>

\* stop_video_stream 280-282 called by shutdown, then shutdown 300-310.
sd_stop_returns ==
    /\ mainPc = "sd_stop"
    /\ \E raises \in BOOLEAN :
          streams' = StopReturned(streams, stream_to_stop, raises)
    /\ \E r \in DisconnectRaises(client) : disc' = Disconnected(client, r)
    /\ exc' = Raises(exc, disc')
    /\ mainPc' = "returned"
    /\ UNCHANGED <<running, client, event_loop, subscribed, stream_to_stop>>
    /\ UNCHANGED mainHistory
    /\ UNCHANGED <<configVars, exit_code, monitors>>
    /\ UNCHANGED <<video_stream, locked, waiters, has_pc, has_streamer,
                   readyQ, tasks, published, dropped>>

\* A task that asyncio.run cancels when the main coroutine is over: the
\* CancelledError is thrown in at the await the task is suspended in, is no
\* Exception, so none of the handlers' except clauses catches it.
Cancelled(t) == IF t.pc = "done" THEN t ELSE [t EXCEPT !.pc = "cancelled"]

\* main 349-351: run() has returned or raised; asyncio.run cancels the
\* tasks still pending, runs them to completion and closes the loop.  An
\* exception of run() is caught by async_main, which exits with status 1
\* (344-346).
main_returns ==
    /\ mainPc = "returned"
    /\ mainPc' = "exited"
    /\ tasks' = [c \in TaskIds |-> Cancelled(tasks[c])]
    /\ readyQ' = <<>>
    /\ waiters' = <<>>
    /\ locked' = FALSE
    /\ UNCHANGED <<running, client, event_loop, subscribed, stream_to_stop,
                   exc, disc>>
    /\ UNCHANGED mainHistory
    /\ exit_code' = IF exc THEN 1 ELSE 0
    /\ monitors' = [m \in DOMAIN monitors |-> [monitors[m] EXCEPT !.pc = "ended"]]
    /\ UNCHANGED configVars
    /\ UNCHANGED <<video_stream, has_pc, has_streamer, streams, published,
                   dropped>>

\* _log_frame_count_periodically 241-244: the task runs for the first time.
monitor_starts(m) ==
    /\ readyQ # <<>>
    /\ NextReady(readyQ) = -m
    /\ readyQ' = Tail(readyQ)
    /\ monitors' = [monitors EXCEPT
                       ![m].seen = video_stream,
                       ![m].pc = IF KeepsSampling(running, video_stream)
                                 THEN "sleeping" ELSE "ended"]
    /\ UNCHANGED mainVars
    /\ UNCHANGED <<video_stream, locked, waiters, has_pc, has_streamer,
                   tasks, streams, published, dropped>>

\* _log_frame_count_periodically 243-253: the sleep is over; the task
\* samples streamer.frame_count and tests the loop condition again.
monitor_wakes(m) ==
    /\ mainPc # "exited"
    /\ monitors[m].pc = "sleeping"
    /\ monitors' = [monitors EXCEPT
                       ![m].stale = @ \/ video_stream # monitors[m].h,
                       ![m].pc = IF KeepsSampling(running, video_stream)
                                 THEN "sleeping" ELSE "ended"]
    /\ UNCHANGED mainVars
    /\ UNCHANGED handlerVars

\* Every step of the event loop's tasks, and the delivery of a signal.
Process ==
    \/ \E c \in TaskIds : handle_command(c)
    \/ \E c \in TaskIds : lock_acquired(c)
    \/ \E c \in TaskIds : start_returns(c)
    \/ \E c \in TaskIds : cleanup_returns(c)
    \/ \E c \in TaskIds : pc_close_returns(c)
    \/ \E c \in TaskIds : sleep_returns(c)
    \/ \E c \in TaskIds : stop_returns(c)
    \/ \E outcome \in ConnectOutcomes : run(outcome)
    \/ signal_handler
    \/ shutdown
    \/ sd_pc_close_returns
    \/ sd_sleep_returns
    \/ sd_stop_returns
    \/ main_returns

Next ==
    \/ \E data \in Payloads : on_command_message(data)
    \/ Process

Spec == Init /\ [][Next]_vars

(***************************************************************************)
(* The same service with the callback's refusals kept in dropped.          *)
(***************************************************************************)
\* Bound on the number of commands accepted in one run of SpecLogged.
MaxLogged == 2

on_command_message_logged(data) == Deliver(data, TRUE, MaxLogged)

NextLogged ==
    \/ \E data \in Payloads : on_command_message_logged(data)
    \/ Process

SpecLogged == Init /\ [][NextLogged]_vars

(***************************************************************************)
(* The same service on the end-to-end scenario of the specification: the   *)
(* channel delivers start_video, start_video, stop_video, stop_video, at   *)
(* any pace.                                                               *)
(***************************************************************************)
CommandPayload(v) == [isdict |-> TRUE, keys |-> {"command"}, command |-> v]

Scenario == <<CommandPayload("start_video"), CommandPayload("start_video"),
              CommandPayload("stop_video"), CommandPayload("stop_video")>>

(***************************************************************************)
(* The same service under the scheduling of the asyncio event loop: the    *)
(* loop runs every callback that is ready, and every call into the SDK     *)
(* that a task awaits returns or raises.  EventLoop is every step of the   *)
(* loop's tasks; the delivery of a signal and of a message are the         *)
(* environment's and are not forced.  The run keeps the history signalled. *)
(***************************************************************************)
\* Bound on the number of commands accepted in one run of SpecFair.
MaxFair == 2

on_command_message_fair(data) == Deliver(data, FALSE, MaxFair)

EventLoop ==
    \/ \E c \in TaskIds :
          \/ handle_command(c)
          \/ lock_acquired(c)
          \/ start_returns(c)
          \/ cleanup_returns(c)
          \/ pc_close_returns(c)
          \/ sleep_returns(c)
          \/ stop_returns(c)
    \/ \E outcome \in ConnectOutcomes : run(outcome)
    \/ shutdown
    \/ sd_pc_close_returns
    \/ sd_sleep_returns
    \/ sd_stop_returns
    \/ main_returns

NextFair ==
    \/ \E data \in Payloads : on_command_message_fair(data)
    \/ Process

InitFair == Constructed /\ observed = {"signal"}

SpecFair == InitFair /\ [][NextFair]_vars /\ WF_vars(EventLoop)

\* The same service with its frame-count tasks.
InitMonitor == Constructed /\ observed = {"monitor"}

NextMonitor ==
    \/ Next
    \/ \E m \in MonitorIds : monitor_starts(m)
    \/ \E m \in MonitorIds : monitor_wakes(m)

SpecMonitor == InitMonitor /\ [][NextMonitor]_vars

\* The same service, keeping which teardown calls on a stream handle raised.
InitTeardown == Constructed /\ observed = {"teardown"}

SpecTeardown == InitTeardown /\ [][NextFair]_vars

\* The same service, keeping which of shutdown's disconnect calls raised.
InitShutdown == Constructed /\ observed = {"disconnect"}

SpecShutdown == InitShutdown /\ [][NextFair]_vars

(***************************************************************************)
(* The start of the process, from any environment and .env file.           *)
(* async_main 328-340 has no suspension point: load_config, the            *)
(* construction of the service and the installation of the signal handlers *)
(* are one step, which ends with the service constructed or, when          *)
(* load_config raised, with sys.exit(1) (344-346).  No message is          *)
(* delivered in these runs.                                                *)
(***************************************************************************)
async_main ==
    /\ mainPc = "boot"
    /\ LET r == load_config(environ, dotenv) IN
       /\ environ' = r.environ
       /\ config' = r.config
       /\ IF r.error = "none"
          THEN /\ mainPc' = "init"
               /\ UNCHANGED exit_code
          ELSE /\ mainPc' = "exited"
               /\ exit_code' = 1
    /\ UNCHANGED <<running, client, event_loop, subscribed, stream_to_stop,
                   exc, disc, signalled, observed, dotenv, monitors>>
    /\ UNCHANGED handlerVars

InitConfig ==
    /\ Fresh
    /\ mainPc = "boot"
    /\ environ \in Environs
    /\ dotenv \in Dotenvs
    /\ config = NoConfig
    /\ observed = {}

NextConfig ==
    \/ async_main
    \/ \E outcome \in ConnectOutcomes : run(outcome)
    \/ signal_handler
    \/ shutdown
    \/ main_returns

SpecConfig == InitConfig /\ [][NextConfig]_vars

(***************************************************************************)
(* The same service when only the main task is sure to run: the calls the  *)
(* main task awaits return (the sleeps of run, the teardown calls of       *)
(* shutdown), while a call a handler awaits may never return.              *)
(***************************************************************************)
MainTask ==
    \/ \E outcome \in ConnectOutcomes : run(outcome)
    \/ shutdown
    \/ sd_pc_close_returns
    \/ sd_sleep_returns
    \/ sd_stop_returns
    \/ main_returns

SpecBlocked == Init /\ [][NextFair]_vars /\ WF_vars(MainTask)

on_command_message_scenario ==
    /\ Len(tasks) < Len(Scenario)
    /\ Deliver(Scenario[Len(tasks) + 1], FALSE, Len(Scenario))

NextScenario ==
    \/ on_command_message_scenario
    \/ Process

SpecScenario == Init /\ [][NextScenario]_vars

(***************************************************************************)
(* Vocabulary of the properties.                                           *)
(***************************************************************************)
\* The positions of a handler between taking the lock and releasing it.
CriticalPcs == {"start", "cleanup", "pc_close", "sleep", "stop"}

InCritical(c) == tasks[c].pc \in CriticalPcs

\* The handler took the lock at some point.
Begun(c) == tasks[c].pc \in CriticalPcs \cup {"done"}

\* The handler ran to its end (it returned, or an exception left it).
Done(c) == tasks[c].pc = "done"

\* The handler ran its test of video_stream (135, 157), so it held the lock.
Entered(c) == tasks[c].seen >= None

\* The handler is over: it ran to its end, or was cancelled at an await
\* inside start_video_stream or stop_video_stream.
Finished(c) == Done(c) \/ (tasks[c].pc = "cancelled" /\ Entered(c))

\* The acknowledgments published for command c, in order.
AcksOf(c) ==
    LET own == SelectSeq(published, LAMBDA a : a.cmd = c)
    IN  [i \in 1..Len(own) |-> own[i].result]

PublishRaised(c) == "publish" \in tasks[c].raised

StreamIds == 1..Len(streams)

\* Handles whose start() was invoked and whose teardown has not completed.
Live == {h \in StreamIds : streams[h].td # "done"}

\* The main task has not begun the shutdown sequence.
BeforeShutdown == mainPc \in {"init", "loop"}

IsCommand(data) ==
    /\ data.isdict
    /\ "status" \notin data.keys
    /\ "command" \in data.keys
    /\ data.command \in {"start_video", "stop_video"}

(***************************************************************************)
(* C1: the handling of two commands is never interleaved.  At most one     *)
(* handler is between taking the lock and releasing it, the lock is held   *)
(* exactly while one is, and a handler that has taken the lock finds       *)
(* every command accepted before it handled to the end, its                *)
(* acknowledgment published unless the publish call itself raised.         *)
(***************************************************************************)
C1_NoInterleaving ==
    /\ \A c, d \in TaskIds : InCritical(c) /\ InCritical(d) => c = d
    /\ locked <=> \E c \in TaskIds : InCritical(c)
    /\ \A c, d \in TaskIds :
          (c < d /\ Begun(d)) =>
              /\ Done(c)
              /\ (~PublishRaised(c) => Len(AcksOf(c)) = 1)

\* A handler is inside start() holding the lock, an earlier command is
\* acknowledged and a later one waits for the lock.
C1_Witness ==
    \E b, c, d \in TaskIds :
        /\ b < c /\ c < d
        /\ Done(b) /\ Len(AcksOf(b)) = 1
        /\ tasks[c].pc = "start" /\ locked
        /\ tasks[d].pc = "waiting"

(***************************************************************************)
(* C2: every accepted command whose handler is over (it ran to its end or  *)
(* was cancelled while suspended in a call on the stream handle) has       *)
(* exactly one published acknowledgment.  Stated for the handlers none of  *)
(* whose publish calls raised, the case most favourable to the claim.      *)
(***************************************************************************)
C2_ExactlyOneAck ==
    \A c \in TaskIds :
        (Finished(c) /\ ~PublishRaised(c)) => Len(AcksOf(c)) = 1

(***************************************************************************)
(* C3: while commands alone drive the stream (the shutdown sequence has    *)
(* not begun), at most one stream handle has been started and not torn     *)
(* down, so no handle is constructed while another is live.                *)
(***************************************************************************)
C3_OneLiveHandle == BeforeShutdown => Cardinality(Live) <= 1

\* A second handle is live after the first was torn down, with a further
\* start_video waiting behind it.
C3_Witness ==
    /\ BeforeShutdown
    /\ Len(streams) = 2
    /\ streams[1].td = "done"
    /\ Live = {2}
    /\ \E c \in TaskIds : tasks[c].kind = "start_video" /\ tasks[c].pc = "waiting"

(***************************************************************************)
(* C4: a start_video handler whose start() raised and that ran to its end  *)
(* has called stop() on the handle it created, leaves video_stream None,   *)
(* and publishes "error" and nothing else: exactly once when the publish   *)
(* call returns, in which case no exception leaves the handler.            *)
(***************************************************************************)
StartRaised(c) ==
    /\ tasks[c].kind = "start_video"
    /\ tasks[c].h # None
    /\ streams[tasks[c].h].st = "failed"

C4_StartFailureContained ==
    \A c \in TaskIds :
        (StartRaised(c) /\ Done(c)) =>
            /\ "stop" \in streams[tasks[c].h].calls
            /\ streams[tasks[c].h].td = "done"
            /\ tasks[c].after = None
            /\ "start" \in tasks[c].raised
            /\ IF PublishRaised(c) THEN AcksOf(c) = <<>>
                                   ELSE AcksOf(c) = <<"error">>

\* start() raised, the handler is over and its "error" is published.
C4_Witness ==
    \E c \in TaskIds :
        /\ StartRaised(c) /\ Done(c)
        /\ AcksOf(c) = <<"error">>
        /\ video_stream = None

(***************************************************************************)
(* C5: start_video is idempotent.  The step in which a start_video handler *)
(* holding the lock finds a handle retained ends the handler: it           *)
(* constructs no handle, calls nothing on any handle, leaves video_stream  *)
(* as it was, and publishes "ok" and only "ok" unless the publish call     *)
(* raises.                                                                 *)
(***************************************************************************)
\* Task c takes the step that follows the acquisition of the lock.
Enters(c) ==
    /\ tasks[c].pc \in {"ready", "waiting"}
    /\ tasks'[c].pc \in CriticalPcs \cup {"done"}

C5_StartIdempotent ==
    [][\A c \in TaskIds :
          (Enters(c) /\ tasks[c].kind = "start_video" /\ video_stream # None) =>
              /\ tasks'[c].pc = "done"
              /\ tasks'[c].h = None
              /\ streams' = streams
              /\ video_stream' = video_stream
              /\ tasks'[c].after = video_stream
              /\ \/ published' = Append(published, [cmd |-> c, result |-> "ok"])
                 \/ "publish" \in tasks'[c].raised]_vars

\* Two start_video commands in a row found the same handle retained and
\* were acknowledged "ok".
C5_Witness ==
    \E c, d \in TaskIds :
        /\ c < d
        /\ tasks[c].kind = "start_video" /\ tasks[d].kind = "start_video"
        /\ Done(c) /\ Done(d)
        /\ tasks[c].seen # None /\ tasks[d].seen = tasks[c].seen
        /\ AcksOf(c) = <<"ok">> /\ AcksOf(d) = <<"ok">>
        /\ video_stream = tasks[c].seen
        /\ Len(streams) = 1

(***************************************************************************)
(* C6: stop_video is idempotent.  The step in which a stop_video handler   *)
(* holding the lock finds no handle retained ends the handler: it makes    *)
(* no call on any handle, leaves video_stream None, and publishes "ok"     *)
(* and only "ok" unless the publish call raises.                           *)
(***************************************************************************)
C6_StopIdempotent ==
    [][\A c \in TaskIds :
          (Enters(c) /\ tasks[c].kind = "stop_video" /\ video_stream = None) =>
              /\ tasks'[c].pc = "done"
              /\ tasks'[c].h = None
              /\ streams' = streams
              /\ video_stream' = None
              /\ \/ published' = Append(published, [cmd |-> c, result |-> "ok"])
                 \/ "publish" \in tasks'[c].raised]_vars

\* A stop_video that found no handle was acknowledged "ok" after an
\* earlier stop_video tore the stream down.
C6_Witness ==
    \E c, d \in TaskIds :
        /\ c < d
        /\ tasks[c].kind = "stop_video" /\ tasks[d].kind = "stop_video"
        /\ Done(c) /\ Done(d)
        /\ tasks[c].seen # None
        /\ tasks[d].seen = None /\ tasks[d].h = None
        /\ AcksOf(d) = <<"ok">>
        /\ video_stream = None

(***************************************************************************)
(* C7: a delivered message that is not a command is never acted on.  Every *)
(* handler ever scheduled stems from a payload that is a mapping without   *)
(* "status" whose "command" is start_video or stop_video, every            *)
(* acknowledgment belongs to such a handler, every refused payload is not  *)
(* such a payload, and the step that refuses a payload changes nothing     *)
(* else.                                                                   *)
(***************************************************************************)
C7_NonCommandsIgnored ==
    /\ [](/\ \A c \in TaskIds :
                IsCommand(tasks[c].data) /\ tasks[c].kind = tasks[c].data.command
          /\ \A i \in 1..Len(published) : published[i].cmd \in TaskIds
          /\ dropped # NoPayload => ~IsCommand(dropped))
    /\ [][dropped' # dropped =>
            UNCHANGED <<running, client, event_loop, video_stream, locked,
                        waiters, readyQ, tasks, streams, published>>]_vars

\* A payload with both "status" and "command": "start_video" was delivered
\* while a stream is retained, and nothing was scheduled for it.
C7_Witness ==
    /\ dropped = [isdict |-> TRUE, keys |-> {"status", "command"},
                  command |-> "start_video"]
    /\ video_stream # None
    /\ Len(tasks) = 1
    /\ Len(published) = 1

(***************************************************************************)
(* C8: acknowledgments are published in the order in which the commands    *)
(* were accepted.                                                          *)
(***************************************************************************)
C8_AcksInOrder ==
    \A i, j \in 1..Len(published) :
        i < j => published[i].cmd < published[j].cmd

\* Three commands are acknowledged while a stream handle was started: the
\* later ones were accepted while the first held the lock or before.
C8_Witness ==
    /\ Len(published) >= 3
    /\ \A i \in 1..3 : published[i].cmd = i
    /\ Len(streams) >= 1

(***************************************************************************)
(* C9: once the shutdown sequence has completed, video_stream is None and  *)
(* every stream handle whose start() was invoked has been torn down.       *)
(***************************************************************************)
C9_NoStreamAfterShutdown ==
    mainPc \in {"returned", "exited"} =>
        /\ video_stream = None
        /\ \A h \in StreamIds : streams[h].td = "done"

(***************************************************************************)
(* C10: on the scenario start_video, start_video, stop_video, stop_video   *)
(* with no failing call and no shutdown begun, after the k-th command the  *)
(* state is Running, Running with the same, only handle, Absent, Absent,   *)
(* and the k-th acknowledgment is the "ok" of the k-th command.            *)
(***************************************************************************)
ScenarioAfter == <<1, 1, None, None>>

Clean(c) ==
    /\ Done(c)
    /\ tasks[c].raised = {}

C10_Scenario ==
    \A k \in TaskIds :
        (mainPc = "loop" /\ \A c \in 1..k : Clean(c)) =>
            /\ tasks[k].after = ScenarioAfter[k]
            /\ tasks[k].seen = (IF k = 1 THEN None ELSE ScenarioAfter[k - 1])
            /\ Len(streams) = 1
            /\ streams[1].st = "started"
            /\ Len(published) >= k
            /\ published[k] = [cmd |-> k, result |-> "ok"]
            /\ (k = Len(Scenario) =>
                    /\ video_stream = None
                    /\ streams[1].td = "done"
                    /\ Len(published) = k)

\* All four commands are handled without a failure.
C10_Witness ==
    /\ mainPc = "loop"
    /\ Len(tasks) = Len(Scenario)
    /\ \A c \in TaskIds : Clean(c)
    /\ Len(published) = Len(Scenario)

(***************************************************************************)
(* C11: a shutdown request always leads to the shutdown sequence.  Once a  *)
(* signal has been delivered to the process (the handlers are installed),  *)
(* or connect() has raised, the main task eventually has run shutdown():   *)
(* running is false and run() is over, the disconnects attempted.          *)
(***************************************************************************)
ShutdownRequested == signalled \/ mainPc = "failed"

ShutdownDone == ~running /\ mainPc \in {"returned", "exited"}

C11_RequestLeadsToShutdown == ShutdownRequested ~> ShutdownDone

(***************************************************************************)
(* C12: during shutdown a failure of one disconnect step never blocks the  *)
(* next.  Once shutdown() is over with a client, the MQTT disconnect and   *)
(* the client's disconnect have both been attempted, whichever of them     *)
(* raised, and no exception left shutdown(): run() raises only what        *)
(* connect() raised.                                                       *)
(***************************************************************************)
ShutdownOver == mainPc \in {"returned", "exited"}

C12_DisconnectsIndependent ==
    ShutdownOver =>
        /\ client => {"mqtt", "client"} \subseteq disc
        /\ "propagated" \notin disc
        /\ exc <=> ~subscribed

\* The MQTT disconnect raised, the client's disconnect was attempted and
\* raised as well, and run() returns normally.
C12_Witness ==
    /\ mainPc = "returned"
    /\ {"mqtt_raised", "client", "client_raised"} \subseteq disc
    /\ ~exc

(***************************************************************************)
(* C13: startup fails fast on missing configuration.  validate() is true   *)
(* exactly when the token and the twin identifier, as the environment and  *)
(* the .env file give them, are both non-empty; when one is absent         *)
(* load_config raises ValueError (with "Invalid configuration" when the    *)
(* rest of the environment is well-formed) and the process has exited      *)
(* with status 1, the client never constructed, nothing connected or       *)
(* subscribed.                                                             *)
(***************************************************************************)
Present(v) == v \notin {Unset, ""}

C13_FailFast ==
    mainPc # "boot" =>
        LET e == LoadDotenv(environ, dotenv)
            both == Present(e.token) /\ Present(e.twin)
            r == load_config(environ, dotenv)
        IN  /\ validate(EdgeConfig(e)) <=> both
            /\ config # NoConfig => both
            /\ ~both =>
                  /\ r.error # "none"
                  /\ PortOf(e) # BadInt => r.error = "Invalid configuration"
                  /\ config = NoConfig
                  /\ mainPc = "exited" /\ exit_code = 1
                  /\ ~client /\ ~subscribed /\ ~event_loop /\ ~running

\* The token is set and the twin identifier is empty (set so by the .env
\* file): the process has exited with status 1.
C13_Witness ==
    /\ mainPc = "exited" /\ exit_code = 1
    /\ Present(environ.token)
    /\ dotenv.twin = "" /\ environ.twin = ""
    /\ PortOf(environ) # BadInt

(***************************************************************************)
(* C14: video_stream is mutated only while the video operation lock is     *)
(* held.  Every step that changes video_stream is a step of a handler that *)
(* holds the lock when the step begins or when it ends; this must include  *)
(* the steps of the shutdown sequence.                                     *)
(***************************************************************************)
C14_WritesUnderLock ==
    [][video_stream' # video_stream =>
          \E c \in TaskIds :
              /\ tasks'[c] # tasks[c]
              /\ InCritical(c) \/ InCritical(c)']_vars

(***************************************************************************)
(* C17: the stop sequence clears the retained handle before any teardown   *)
(* call.  While a stop sequence is between its first teardown call and     *)
(* its return, whether a handler or shutdown runs it, video_stream is      *)
(* None, and it is None in the state the stop sequence returns in.         *)
(***************************************************************************)
TeardownPcs == {"pc_close", "sleep", "stop"}

InTeardown ==
    \/ \E c \in TaskIds : tasks[c].pc \in TeardownPcs
    \/ mainPc \in {"sd_pc_close", "sd_sleep", "sd_stop"}

\* The step ends a run of stop_video_stream that had a handle to stop.
StopSequenceReturns ==
    \/ \E c \in TaskIds :
          tasks[c].pc \in TeardownPcs /\ tasks'[c].pc = "done"
    \/ mainPc = "sd_stop" /\ mainPc' = "returned"

C17_ClearedDuringTeardown ==
    /\ [](InTeardown => video_stream = None)
    /\ [][StopSequenceReturns => video_stream' = None]_vars

(***************************************************************************)
(* C20: an "error" acknowledgment for start_video implies the stream is    *)
(* absent.  When a start_video handler has published "error", it left      *)
(* video_stream None and no handle it created is started and not torn      *)
(* down; a handler that leaves a stream running and got an                 *)
(* acknowledgment through has published "ok".  This is to hold also when   *)
(* the publish of "ok" itself raises.                                      *)
(***************************************************************************)
\* Handler c created a handle that is started and was not torn down.
LeftRunning(c) ==
    /\ tasks[c].h # None
    /\ streams[tasks[c].h].st = "started"
    /\ "stop" \notin streams[tasks[c].h].calls

C20_ErrorMeansAbsent ==
    \A c \in TaskIds :
        (Done(c) /\ tasks[c].kind = "start_video") =>
            /\ AcksOf(c) = <<"error">> =>
                  tasks[c].after = None /\ ~LeftRunning(c)
            /\ (tasks[c].after # None /\ AcksOf(c) # <<>>) =>
                  AcksOf(c) = <<"ok">>

(***************************************************************************)
(* C19: a command-handling error never leaves the lock held.  The lock is  *)
(* held only while a handler is between taking it and its end, however the *)
(* handler ended (success, failing start() or stop(), failing publish);    *)
(* so every accepted command is eventually handled to its end, unless the  *)
(* process exits first, and a handler that ended has published its         *)
(* acknowledgment unless the publish call itself raised.                   *)
(***************************************************************************)
Over(c) == c \in TaskIds /\ tasks[c].pc \in {"done", "cancelled"}

C19_LockNeverLeftHeld ==
    /\ [](locked => \E c \in TaskIds : InCritical(c))
    /\ [](\A c \in TaskIds :
            Done(c) => (Len(AcksOf(c)) = 1 \/ PublishRaised(c)))
    /\ \A c \in 1..MaxFair : (c \in TaskIds) ~> Over(c)

\* The first handler ended with start() failing and the publish of "error"
\* raising; the second command has been handled after it, with no stream
\* retained, and acknowledged.
C19_Witness ==
    /\ Len(tasks) = 2
    /\ Done(1) /\ StartRaised(1) /\ PublishRaised(1) /\ AcksOf(1) = <<>>
    /\ Done(2) /\ tasks[2].seen = None /\ Len(AcksOf(2)) = 1
    /\ ~locked
    /\ mainPc = "loop"

(***************************************************************************)
(* C15: in the stop sequence, when the handle's stop() raises, a forced    *)
(* release() is invoked on the handle's streamer before the stop sequence  *)
(* finishes.                                                               *)
(***************************************************************************)
\* The stop sequence (not the cleanup of a failed start) has run on h.
Stopped(h) == streams[h].st = "started" /\ streams[h].td = "done"

C15_ForcedRelease ==
    \A h \in StreamIds :
        (Stopped(h) /\ "stop" \in streams[h].raised /\ has_streamer) =>
            "release" \in streams[h].calls

(***************************************************************************)
(* C18: the teardown steps are independently fallible.  Whichever of       *)
(* pc.close(), streamer.close() and stop() raise, a stop sequence calls    *)
(* each of the three that applies to the handle, in that order: stop() is  *)
(* called only after the calls of pc.close() and streamer.close() the      *)
(* handle admits, the sequence ends only after stop() was called, and no   *)
(* exception leaves stop_video_stream: the stop handler goes on to publish *)
(* "ok" and shutdown goes on to its disconnects.                           *)
(***************************************************************************)
TeardownCalls == {"pc.close", "streamer.close", "stop"}

Applicable ==
    (IF has_pc THEN {"pc.close"} ELSE {}) \cup
    (IF has_streamer THEN {"streamer.close"} ELSE {}) \cup {"stop"}

C18_TeardownStepsIndependent ==
    /\ \A h \in StreamIds :
          (streams[h].st = "started" /\ streams[h].td # "none") =>
              LET made == streams[h].calls \cap TeardownCalls IN
              /\ made \subseteq Applicable
              /\ has_pc => "pc.close" \in made
              /\ ("stop" \in made /\ has_streamer) => "streamer.close" \in made
              /\ streams[h].td = "done" => made = Applicable
              /\ streams[h].raised \subseteq made
    /\ \A c \in TaskIds :
          (Done(c) /\ tasks[c].kind = "stop_video" /\ tasks[c].seen # None) =>
              /\ Stopped(tasks[c].h)
              /\ ~PublishRaised(c) => AcksOf(c) = <<"ok">>
    /\ (ShutdownOver /\ stream_to_stop # None) =>
          /\ Stopped(stream_to_stop)
          /\ client => {"mqtt", "client"} \subseteq disc
          /\ exc <=> ~subscribed

\* A stop handler ran the stop sequence on a handle with a pc and a
\* streamer; all three calls raised, all three were made, and the handler
\* published "ok".
C18_Witness ==
    \E c \in TaskIds :
        /\ Done(c) /\ tasks[c].kind = "stop_video" /\ tasks[c].seen # None
        /\ streams[tasks[c].h].raised = TeardownCalls
        /\ TeardownCalls \subseteq streams[tasks[c].h].calls
        /\ AcksOf(c) = <<"ok">>

(***************************************************************************)
(* C16: the frame-count task started for a stream stops once that stream   *)
(* is stopped.  A task that began sampling while its stream was retained   *)
(* and has sampled after the stream ceased to be the retained one (the     *)
(* interval in flight) has terminated, also when a new stream was started  *)
(* before that wake-up; so no two tasks keep sampling.                     *)
(***************************************************************************)
C16_MonitorStopsWithStream ==
    \A m \in MonitorIds :
        (monitors[m].seen = monitors[m].h /\ monitors[m].stale) =>
            monitors[m].pc = "ended"

(***************************************************************************)
(* C21: a handler blocked forever in the stream handle's start(), holding  *)
(* the lock, stalls later commands but not shutdown.  While a handler is   *)
(* in start(), no command accepted after it has been handled; once the     *)
(* wait loop has a shutdown request, shutdown() runs to its end with the   *)
(* disconnects attempted, whether or not start() ever returns; and no step *)
(* of the shutdown sequence takes or waits for the lock.                   *)
(***************************************************************************)
InStart(c) == tasks[c].pc = "start"

Requested == mainPc = "loop" /\ ~running

C21_BlockedStartDoesNotStallShutdown ==
    /\ [](\A c \in TaskIds : InStart(c) =>
            /\ locked
            /\ \A d \in TaskIds : d > c => tasks[d].pc \in {"ready", "waiting"})
    /\ [][(mainPc' # mainPc /\ mainPc' # "exited") => locked' = locked]_vars
    /\ (Requested /\ \E c \in TaskIds : InStart(c)) ~>
          (ShutdownDone /\ disc = Disconnects(client))

\* shutdown() has returned, its disconnects attempted, while the first
\* handler is still in start() holding the lock and the second command
\* waits for the lock.
C21_Witness ==
    /\ mainPc = "returned"
    /\ disc = {"mqtt", "client"}
    /\ Len(tasks) = 2
    /\ InStart(1) /\ locked
    /\ tasks[2].pc = "waiting"

====
